---- MODULE Spec2Model ----
(***************************************************************************)
(* The AsyncShared pointer family of mseasyncshared.h: one shared cell     *)
(* (TAsyncSharedObj: payload + std::shared_timed_mutex m_mutex1) owned by  *)
(* a std::shared_ptr, the access requesters that hold a reference to it,   *)
(* and the move-only pointer proxies the requesters mint.                  *)
(* The reference counting pointers of mserefcounted.h: targets on the heap *)
(* (TRefWithTargetObj: CRefCounter + object) and the TRefCountedPointer /  *)
(* TRefCountedFixedPointer objects that reference them, in one thread.     *)
(***************************************************************************)
EXTENDS Integers, FiniteSets, TLC

\* ------------------------------------------------------------------ bounds
NumThreads == 3
NumUsers == 2
MaxProxies == 3
MaxRequesters == 2
MaxVal == 1
MaxMints == 2
MaxTargets == 2
MaxPtrs == 3

Threads == 1 .. NumThreads
\* the threads that run in Spec; the scenarios run all of Threads
Users == 1 .. NumUsers
ProxyIds == 1 .. MaxProxies
ReqIds == 1 .. MaxRequesters
Values == 0 .. MaxVal
Targets == 1 .. MaxTargets
PtrIds == 1 .. MaxPtrs

\* ------------------------------------------------- the four factories
make_asyncshared == "make_asyncshared"
make_asyncsharedimmutable == "make_asyncsharedimmutable"
make_nomutablemembers == "make_asyncsharedsimpleobjectyouaresurehasnomutablemembers"
make_nomutablemembersimmutable == "make_asyncsharedsimpleobjectyouaresurehasnomutablemembersimmutable"

Kinds == {make_asyncshared, make_asyncsharedimmutable,
          make_nomutablemembers, make_nomutablemembersimmutable}

\* ------------------------------------------------- the five proxy classes
\* (the pure mutable-capable path has two: six class names in all)
TAsyncSharedPointer == "TAsyncSharedPointer"
TAsyncSharedConstPointer == "TAsyncSharedConstPointer"
TAsyncSharedImmutableConstPointer == "TAsyncSharedImmutableConstPointer"
NoMutableMembersPointer == "TAsyncSharedSimpleObjectYouAreSureHasNoMutableMembersPointer"
NoMutableMembersConstPointer == "TAsyncSharedSimpleObjectYouAreSureHasNoMutableMembersConstPointer"
NoMutableMembersImmutableConstPointer == "TAsyncSharedSimpleObjectYouAreSureHasNoMutableMembersImmutableConstPointer"

ProxyTypes == {TAsyncSharedPointer, TAsyncSharedConstPointer,
               TAsyncSharedImmutableConstPointer, NoMutableMembersPointer,
               NoMutableMembersConstPointer, NoMutableMembersImmutableConstPointer}

\* The lock member each proxy constructor initialises from shptr->m_mutex1:
\* "unique" is std::unique_lock (m_unique_lock), "shared" is std::shared_lock
\* (m_shared_lock), "none" is the commented-out member of the pure immutable proxy.
\* fault injection: the lock member a constructor could have used instead
Bug_shared_lock == "shared"
Bug_unique_lock == "unique"
Bug_no_lock == "none"

TAsyncSharedPointer_lock == "unique"
TAsyncSharedConstPointer_lock == "unique"
TAsyncSharedImmutableConstPointer_lock == "unique"
NoMutableMembersPointer_lock == "unique"
NoMutableMembersConstPointer_lock == "shared"
NoMutableMembersImmutableConstPointer_lock == "none"

LockOf(typ) ==
    CASE typ = TAsyncSharedPointer -> TAsyncSharedPointer_lock
      [] typ = TAsyncSharedConstPointer -> TAsyncSharedConstPointer_lock
      [] typ = TAsyncSharedImmutableConstPointer -> TAsyncSharedImmutableConstPointer_lock
      [] typ = NoMutableMembersPointer -> NoMutableMembersPointer_lock
      [] typ = NoMutableMembersConstPointer -> NoMutableMembersConstPointer_lock
      [] typ = NoMutableMembersImmutableConstPointer -> NoMutableMembersImmutableConstPointer_lock
      [] OTHER -> "none"

\* fault injection: every operator* returns a non-const reference
Bug_MutableProxyTypes == ProxyTypes

\* operator* returns a non-const TAsyncSharedObj<_Ty>& only for these two classes;
\* every other proxy returns const _Ty&.
MutableProxyTypes == {TAsyncSharedPointer, NoMutableMembersPointer}

\* fault injection: the immutable requesters have a ptr() too
Bug_ptr_type(k) ==
    CASE k \in {make_asyncshared, make_asyncsharedimmutable} -> TAsyncSharedPointer
      [] OTHER -> NoMutableMembersPointer

\* The proxy class ptr() of the requester made by each factory returns; the two
\* immutable requesters declare no ptr().
ptr_type(k) ==
    CASE k = make_asyncshared -> TAsyncSharedPointer
      [] k = make_nomutablemembers -> NoMutableMembersPointer
      [] OTHER -> "none"

\* The proxy class const_ptr() of the requester made by each factory returns.
const_ptr_type(k) ==
    CASE k = make_asyncshared -> TAsyncSharedConstPointer
      [] k = make_asyncsharedimmutable -> TAsyncSharedImmutableConstPointer
      [] k = make_nomutablemembers -> NoMutableMembersConstPointer
      [] k = make_nomutablemembersimmutable -> NoMutableMembersImmutableConstPointer

\* ------------------------------------------------------------------ state
VARIABLES
    kind,        \* the factory the cell was created by
    created,     \* the payload value the factory constructed the cell with
    payload,     \* the _Ty part of the TAsyncSharedObj
    use_count,   \* owners of the std::shared_ptr control block
    destroyed,   \* how many times ~TAsyncSharedObj has run
    m_mutex1,    \* [writer: exclusive owner present, readers: shared owners]
    requesters,  \* the live access requesters (each m_shptr references the cell)
    proxy,       \* the proxy objects: [typ, m_shptr, owns, owner, st]
    pc,          \* where each thread is inside ptr()/const_ptr() or a destructor
    cur,         \* the proxy a thread is constructing or destroying
    step,        \* scenarios: how far each thread is in its body
    local,       \* scenarios: the local variable of each thread's body
    m_counter,     \* CRefCounter::m_counter of each target
    constructions, \* how many times each target has been constructed
    destructions,  \* how many times each target has been deleted
    next,          \* the TRefCountedPointer member `next` of each target (0: null)
    ptrs           \* the pointer objects: [cls, m_ref_with_target_obj_ptr, made]

cell == <<kind, created, payload, use_count, destroyed, m_mutex1, requesters,
          proxy, pc, cur>>
scenario == <<step, local>>
refcounted == <<m_counter, constructions, destructions, next, ptrs>>
vars == <<cell, scenario, refcounted>>

NoProxy == [typ |-> "none", m_shptr |-> FALSE, owns |-> FALSE, owner |-> 0, st |-> "free"]

NoPtr == [cls |-> "none", m_ref_with_target_obj_ptr |-> 0, made |-> 0]

\* no target and no pointer object of mserefcounted.h exists
NoRefCounted ==
    /\ m_counter = [x \in Targets |-> 0]
    /\ constructions = [x \in Targets |-> 0]
    /\ destructions = [x \in Targets |-> 0]
    /\ next = [x \in Targets |-> 0]
    /\ ptrs = [v \in PtrIds |-> NoPtr]

\* what an operator* call gives its caller: the payload, or the exception
out_of_range == <<"out_of_range">>
Ok(v) == <<"ok", v>>

\* ------------------------------------------------------------- helpers
FreeSlots == {p \in ProxyIds : proxy[p].st = "free"}
NewSlot == CHOOSE p \in FreeSlots : \A q \in FreeSlots : p <= q
FreeReqs == ReqIds \ requesters
NewReq == CHOOSE r \in FreeReqs : \A q \in FreeReqs : r <= q

\* is_valid(): m_shptr.operator bool()
is_valid(p) == proxy[p].m_shptr

\* fault injection: operator* without the is_valid() test
Bug_deref(p) == Ok(payload)

\* fault injection: the validity check asks the lock member instead of m_shptr
Bug_operator_bool(p) == proxy[p].owns

\* operator bool(): m_shptr.operator bool(), no test and no throw before it
operator_bool(p) == proxy[p].m_shptr

\* operator*: throws std::out_of_range unless is_valid(), else gives *m_shptr
deref(p) == IF ~is_valid(p) THEN out_of_range ELSE Ok(payload)

\* fault injection: every release deletes the cell (a plain owning pointer)
Bug_release_ref ==
    /\ use_count' = use_count - 1
    /\ destroyed' = destroyed + 1

\* shared_ptr release: the owner that drops the count to zero deletes the cell
release_ref ==
    /\ use_count' = use_count - 1
    /\ destroyed' = IF use_count = 1 THEN destroyed + 1 ELSE destroyed

\* std::shared_timed_mutex. lock() is granted when there is no owner of either
\* kind, lock_shared() when there is no exclusive owner. Which waiter is granted
\* next is left to the implementation: a thread that waits in lock() for the
\* shared owners to leave may announce itself as the next writer ("entered"),
\* and from then on no other waiter is granted before it.
WriterEntered == {t \in Threads : pc[t] = "entered"}

\* fault injection: a writer that has announced itself is held up by its own
\* announcement
Bug_can_lock_strict(t) ==
    /\ ~m_mutex1.writer
    /\ m_mutex1.readers = 0
    /\ WriterEntered = {}

\* fault injection: a recursive mutex, granted again to the owning thread
Bug_can_lock_reentrant(t) ==
    /\ ~m_mutex1.writer \/ \E p \in ProxyIds : proxy[p].owner = t /\ proxy[p].owns
    /\ m_mutex1.readers = 0
    /\ WriterEntered \subseteq {t}

\* fault injection: lock() does not wait for the shared owners
Bug_can_lock(t) ==
    /\ ~m_mutex1.writer
    /\ WriterEntered \subseteq {t}

can_lock(t) ==
    /\ ~m_mutex1.writer
    /\ m_mutex1.readers = 0
    /\ WriterEntered \subseteq {t}

can_lock_shared ==
    /\ ~m_mutex1.writer
    /\ WriterEntered = {}

\* fault injection: the lock member's destructor leaves the mutex locked
Bug_unlock(mode) == m_mutex1

\* std::unique_lock / std::shared_lock destructor on an owning lock
unlock(mode) ==
    CASE mode = "unique" -> [m_mutex1 EXCEPT !.writer = FALSE]
      [] mode = "shared" -> [m_mutex1 EXCEPT !.readers = @ - 1]
      [] OTHER -> m_mutex1

\* the defaulted move constructor, member by member: std::shared_ptr's move
\* leaves the source null, the lock's move leaves the source owning nothing
\* fault injection: the moved-from lock member still owns the lock
Bug_moved_from_keeps_lock(rec) == [rec EXCEPT !.m_shptr = FALSE]

\* fault injection: the source of a move keeps its members (a copy)
Bug_moved_from(rec) == rec

moved_from(rec) == [rec EXCEPT !.m_shptr = FALSE, !.owns = FALSE]

\* fault injection: the lock member is not moved along with m_shptr
Bug_moved_to(rec) == [rec EXCEPT !.owns = FALSE]

moved_to(rec) == rec

\* ------------------------------------------------------------- Init
InitCell ==
    /\ created \in Values
    /\ payload = created
    /\ destroyed = 0
    /\ m_mutex1 = [writer |-> FALSE, readers |-> 0]
    /\ proxy = [p \in ProxyIds |-> NoProxy]
    /\ pc = [t \in Threads |-> "idle"]
    /\ cur = [t \in Threads |-> 0]
    /\ step = [t \in Threads |-> "start"]
    /\ local = [t \in Threads |-> 0]
    /\ NoRefCounted

\* a cell fresh from one of the four factories, held by the requester returned
Init ==
    /\ kind \in Kinds
    /\ requesters = {1}
    /\ use_count = 1
    /\ InitCell

\* ------------------------------------------------------------- requesters
\* fault injection: the copy shares the cell without becoming an owner
Bug_copy_requester(t, r) ==
    /\ pc[t] = "idle"
    /\ r \in requesters
    /\ FreeReqs # {}
    /\ requesters' = requesters \cup {NewReq}
    /\ UNCHANGED <<kind, created, payload, use_count, destroyed, m_mutex1, proxy, pc, cur>>

\* the defaulted copy constructor: copies m_shptr
copy_requester(t, r) ==
    /\ pc[t] = "idle"
    /\ r \in requesters
    /\ FreeReqs # {}
    /\ requesters' = requesters \cup {NewReq}
    /\ use_count' = use_count + 1
    /\ UNCHANGED <<kind, created, payload, destroyed, m_mutex1, proxy, pc, cur>>

\* fault injection: the destructor takes the cell's lock first
Bug_destroy_requester(t, r) ==
    /\ pc[t] = "idle"
    /\ r \in requesters
    /\ can_lock(t)
    /\ requesters' = requesters \ {r}
    /\ release_ref
    /\ UNCHANGED <<kind, created, payload, m_mutex1, proxy, pc, cur>>

\* the implicit destructor: releases m_shptr
destroy_requester(t, r) ==
    /\ pc[t] = "idle"
    /\ r \in requesters
    /\ requesters' = requesters \ {r}
    /\ release_ref
    /\ UNCHANGED <<kind, created, payload, m_mutex1, proxy, pc, cur>>

\* ------------------------------------------------------------- minting
\* ptr()/const_ptr() up to the lock: m_shptr is copied into the constructor's
\* by-value parameter and from there into the proxy's m_shptr member. A proxy
\* class without a lock member is complete at this point and the call returns
\* (the parameter is destroyed again).
mint(t, r, typ) ==
    /\ pc[t] = "idle"
    /\ r \in requesters
    /\ typ \in ProxyTypes
    /\ FreeSlots # {}
    /\ IF LockOf(typ) = "none"
       THEN /\ proxy' = [proxy EXCEPT ![NewSlot] =
                    [typ |-> typ, m_shptr |-> TRUE, owns |-> FALSE, owner |-> t, st |-> "live"]]
            /\ use_count' = use_count + 1
            /\ UNCHANGED <<pc, cur>>
       ELSE /\ proxy' = [proxy EXCEPT ![NewSlot] =
                    [typ |-> typ, m_shptr |-> TRUE, owns |-> FALSE, owner |-> t, st |-> "ctor"]]
            /\ use_count' = use_count + 2
            /\ cur' = [cur EXCEPT ![t] = NewSlot]
            /\ pc' = [pc EXCEPT ![t] = "lock"]
    /\ UNCHANGED <<kind, created, payload, destroyed, m_mutex1, requesters>>

ptr(t, r) == mint(t, r, ptr_type(kind))

const_ptr(t, r) == mint(t, r, const_ptr_type(kind))

\* a thread waiting in m_mutex1.lock() behind shared owners announces itself
writer_enter(t) ==
    /\ pc[t] = "lock"
    /\ LockOf(proxy[cur[t]].typ) = "unique"
    /\ ~m_mutex1.writer
    /\ m_mutex1.readers > 0
    /\ WriterEntered = {}
    /\ pc' = [pc EXCEPT ![t] = "entered"]
    /\ UNCHANGED <<kind, created, payload, use_count, destroyed, m_mutex1,
                   requesters, proxy, cur>>

\* fault injection: the release of the constructor's parameter is lost
Bug_granted(t) ==
    /\ proxy' = [proxy EXCEPT ![cur[t]].owns = TRUE, ![cur[t]].st = "live"]
    /\ pc' = [pc EXCEPT ![t] = "idle"]
    /\ cur' = [cur EXCEPT ![t] = 0]
    /\ UNCHANGED <<kind, created, payload, use_count, destroyed, requesters>>

\* the lock is granted, the proxy is complete and ptr()/const_ptr() returns it
\* (the constructor's by-value parameter is destroyed)
granted(t) ==
    /\ proxy' = [proxy EXCEPT ![cur[t]].owns = TRUE, ![cur[t]].st = "live"]
    /\ use_count' = use_count - 1
    /\ pc' = [pc EXCEPT ![t] = "idle"]
    /\ cur' = [cur EXCEPT ![t] = 0]
    /\ UNCHANGED <<kind, created, payload, destroyed, requesters>>

\* m_unique_lock(shptr->m_mutex1): m_mutex1.lock()
unique_lock(t) ==
    /\ pc[t] \in {"lock", "entered"}
    /\ LockOf(proxy[cur[t]].typ) = "unique"
    /\ can_lock(t)
    /\ m_mutex1' = [m_mutex1 EXCEPT !.writer = TRUE]
    /\ granted(t)

\* m_shared_lock(shptr->m_mutex1): m_mutex1.lock_shared()
shared_lock(t) ==
    /\ pc[t] = "lock"
    /\ LockOf(proxy[cur[t]].typ) = "shared"
    /\ can_lock_shared
    /\ m_mutex1' = [m_mutex1 EXCEPT !.readers = @ + 1]
    /\ granted(t)

\* The calling thread owns m_mutex1 exclusively already (through another of
\* its proxies): locking it again is undefined. Where the implementation
\* detects it, lock()/lock_shared() throw std::system_error
\* (resource_deadlock_would_occur): the constructor is left by the exception,
\* its m_shptr member and its by-value parameter are released and
\* ptr()/const_ptr() returns no proxy. Where it does not, the call waits.
lock_fails(t) ==
    /\ pc[t] \in {"lock", "entered"}
    /\ \E p \in ProxyIds :
          proxy[p].owner = t /\ proxy[p].owns /\ LockOf(proxy[p].typ) = "unique"
    /\ proxy' = [proxy EXCEPT ![cur[t]] = NoProxy]
    /\ use_count' = use_count - 2
    /\ pc' = [pc EXCEPT ![t] = "idle"]
    /\ cur' = [cur EXCEPT ![t] = 0]
    /\ UNCHANGED <<kind, created, payload, destroyed, m_mutex1, requesters>>

\* ------------------------------------------------------------- proxies
Mine(t) == {p \in ProxyIds : proxy[p].st = "live" /\ proxy[p].owner = t}

\* T(T&& src) = default
move(t, p) ==
    /\ pc[t] = "idle"
    /\ p \in Mine(t)
    /\ FreeSlots # {}
    /\ proxy' = [proxy EXCEPT ![NewSlot] = moved_to(proxy[p]),
                              ![p] = moved_from(proxy[p])]
    /\ UNCHANGED <<kind, created, payload, use_count, destroyed, m_mutex1,
                   requesters, pc, cur>>

\* operator* / operator-> used to read the payload: the caller gets deref(p),
\* the cell and the proxy are left as they were
operator_star(t, p) ==
    /\ pc[t] = "idle"
    /\ p \in Mine(t)
    /\ UNCHANGED cell

\* (*p) = v through a proxy whose operator* returns a non-const reference
assign(t, p, v) ==
    /\ pc[t] = "idle"
    /\ p \in Mine(t)
    /\ proxy[p].typ \in MutableProxyTypes
    /\ payload' = IF is_valid(p) THEN v ELSE payload
    /\ UNCHANGED <<kind, created, use_count, destroyed, m_mutex1,
                   requesters, proxy, pc, cur>>

\* fault injection: the members declared in the other order, so that m_shptr
\* is released first, while the lock member still owns the lock
Bug_destroy_proxy(t, p) ==
    /\ pc[t] = "idle"
    /\ p \in Mine(t)
    /\ IF proxy[p].m_shptr THEN release_ref ELSE UNCHANGED <<use_count, destroyed>>
    /\ proxy' = [proxy EXCEPT ![p].m_shptr = FALSE, ![p].st = "dtor"]
    /\ pc' = [pc EXCEPT ![t] = "dtor"]
    /\ cur' = [cur EXCEPT ![t] = p]
    /\ UNCHANGED <<kind, created, payload, m_mutex1, requesters>>

\* the destructor, members in reverse order of declaration: first the lock
\* member (unlocks if it owns the lock) ...
destroy_proxy(t, p) ==
    /\ pc[t] = "idle"
    /\ p \in Mine(t)
    /\ m_mutex1' = IF proxy[p].owns THEN unlock(LockOf(proxy[p].typ)) ELSE m_mutex1
    /\ proxy' = [proxy EXCEPT ![p].owns = FALSE, ![p].st = "dtor"]
    /\ pc' = [pc EXCEPT ![t] = "dtor"]
    /\ cur' = [cur EXCEPT ![t] = p]
    /\ UNCHANGED <<kind, created, payload, use_count, destroyed, requesters>>

\* ... then m_shptr (releases the reference if it holds one)
destroy_shptr(t) ==
    /\ pc[t] = "dtor"
    /\ IF proxy[cur[t]].m_shptr THEN release_ref ELSE UNCHANGED <<use_count, destroyed>>
    /\ proxy' = [proxy EXCEPT ![cur[t]] = NoProxy]
    /\ pc' = [pc EXCEPT ![t] = "idle"]
    /\ cur' = [cur EXCEPT ![t] = 0]
    /\ UNCHANGED <<kind, created, payload, m_mutex1, requesters>>

\* ------------------------------------------------------------- Spec
\* threads that use the requesters and their own proxies freely
Next ==
    \E t \in Users :
        \/ \E r \in ReqIds : copy_requester(t, r) /\ UNCHANGED <<scenario, refcounted>>
        \/ \E r \in ReqIds : destroy_requester(t, r) /\ UNCHANGED <<scenario, refcounted>>
        \/ \E r \in ReqIds : ptr(t, r) /\ UNCHANGED <<scenario, refcounted>>
        \/ \E r \in ReqIds : const_ptr(t, r) /\ UNCHANGED <<scenario, refcounted>>
        \/ writer_enter(t) /\ UNCHANGED <<scenario, refcounted>>
        \/ unique_lock(t) /\ UNCHANGED <<scenario, refcounted>>
        \/ shared_lock(t) /\ UNCHANGED <<scenario, refcounted>>
        \/ lock_fails(t) /\ UNCHANGED <<scenario, refcounted>>
        \/ \E p \in ProxyIds : move(t, p) /\ UNCHANGED <<scenario, refcounted>>
        \/ \E p \in ProxyIds : operator_star(t, p) /\ UNCHANGED <<scenario, refcounted>>
        \/ \E p \in ProxyIds, v \in Values : assign(t, p, v) /\ UNCHANGED <<scenario, refcounted>>
        \/ \E p \in ProxyIds : destroy_proxy(t, p) /\ UNCHANGED <<scenario, refcounted>>
        \/ destroy_shptr(t) /\ UNCHANGED <<scenario, refcounted>>

Spec == Init /\ [][Next]_vars

\* ------------------------------------------------------------- SpecCounter
\* The counter scenario: every thread owns a copy of one mutable requester and
\* runs, once, { auto p = r.ptr(); int v = *p; *p = v + 1; } and then drops
\* its requester.
InitCounter ==
    /\ kind \in {make_asyncshared, make_nomutablemembers}
    /\ requesters = Threads
    /\ use_count = NumThreads
    /\ InitCell

inc_ptr(t) ==
    /\ step[t] = "start"
    /\ ptr(t, t)
    /\ step' = [step EXCEPT ![t] = "minted"]
    /\ UNCHANGED local

inc_lock(t) == unique_lock(t) /\ UNCHANGED scenario

inc_read(t) ==
    /\ step[t] = "minted"
    /\ \E p \in Mine(t) :
          /\ operator_star(t, p)
          /\ is_valid(p)
          /\ local' = [local EXCEPT ![t] = deref(p)[2]]
    /\ step' = [step EXCEPT ![t] = "read"]

inc_write(t) ==
    /\ step[t] = "read"
    /\ \E p \in Mine(t) : assign(t, p, local[t] + 1)
    /\ step' = [step EXCEPT ![t] = "written"]
    /\ UNCHANGED local

inc_release(t) ==
    /\ step[t] = "written"
    /\ \E p \in Mine(t) : destroy_proxy(t, p)
    /\ step' = [step EXCEPT ![t] = "released"]
    /\ UNCHANGED local

inc_released(t) == destroy_shptr(t) /\ UNCHANGED scenario

inc_exit(t) ==
    /\ step[t] = "released"
    /\ destroy_requester(t, t)
    /\ step' = [step EXCEPT ![t] = "done"]
    /\ UNCHANGED local

NextCounter ==
    \E t \in Threads :
        \/ inc_ptr(t) /\ UNCHANGED refcounted
        \/ inc_lock(t) /\ UNCHANGED refcounted
        \/ inc_read(t) /\ UNCHANGED refcounted
        \/ inc_write(t) /\ UNCHANGED refcounted
        \/ inc_release(t) /\ UNCHANGED refcounted
        \/ inc_released(t) /\ UNCHANGED refcounted
        \/ inc_exit(t) /\ UNCHANGED refcounted

SpecCounter == InitCounter /\ [][NextCounter]_vars

\* ------------------------------------------------------------- SpecReaders
\* The readers/writers scenario on a pure mutable-capable cell: every thread,
\* again and again, mints one proxy with ptr() or const_ptr() of the shared
\* requester, holds it and destroys it; no thread holds two proxies.
InitReaders ==
    /\ kind = make_nomutablemembers
    /\ requesters = {1}
    /\ use_count = 1
    /\ InitCell

Holds(t) == {p \in ProxyIds : proxy[p].st # "free" /\ proxy[p].owner = t}

rw_ptr(t) == Holds(t) = {} /\ ptr(t, 1) /\ UNCHANGED scenario

rw_const_ptr(t) == Holds(t) = {} /\ const_ptr(t, 1) /\ UNCHANGED scenario

rw_writer_enter(t) == writer_enter(t) /\ UNCHANGED scenario

rw_unique_lock(t) == unique_lock(t) /\ UNCHANGED scenario

rw_shared_lock(t) == shared_lock(t) /\ UNCHANGED scenario

rw_write(t) == \E p \in Mine(t), v \in Values : assign(t, p, v) /\ UNCHANGED scenario

rw_release(t) == \E p \in Mine(t) : destroy_proxy(t, p) /\ UNCHANGED scenario

rw_released(t) == destroy_shptr(t) /\ UNCHANGED scenario

NextReaders ==
    \E t \in Threads :
        \/ rw_ptr(t) /\ UNCHANGED refcounted
        \/ rw_const_ptr(t) /\ UNCHANGED refcounted
        \/ rw_writer_enter(t) /\ UNCHANGED refcounted
        \/ rw_unique_lock(t) /\ UNCHANGED refcounted
        \/ rw_shared_lock(t) /\ UNCHANGED refcounted
        \/ rw_write(t) /\ UNCHANGED refcounted
        \/ rw_release(t) /\ UNCHANGED refcounted
        \/ rw_released(t) /\ UNCHANGED refcounted

SpecReaders == InitReaders /\ [][NextReaders]_vars

\* ------------------------------------------------------------- SpecScope
\* The scope scenario: every thread runs, once,
\*   try { auto p = r.ptr() or r.const_ptr(); [auto q = std::move(p);] *x ... }
\*   catch (const std::out_of_range&) { }
\* where *x is a dereference of one of its proxies. The block is left at its
\* end or by the std::out_of_range a moved-from x throws; either way the
\* proxies of the block are destroyed in reverse order of construction.
InitScope ==
    /\ kind \in Kinds
    /\ requesters = {1}
    /\ use_count = 1
    /\ InitCell

sc_mint(t) ==
    /\ step[t] = "start"
    /\ ptr(t, 1) \/ const_ptr(t, 1)
    /\ step' = [step EXCEPT ![t] = "minted"]
    /\ UNCHANGED local

sc_writer_enter(t) == writer_enter(t) /\ UNCHANGED scenario

sc_unique_lock(t) == unique_lock(t) /\ UNCHANGED scenario

sc_shared_lock(t) == shared_lock(t) /\ UNCHANGED scenario

sc_move(t) ==
    /\ step[t] = "minted"
    /\ \E p \in Mine(t) : move(t, p)
    /\ step' = [step EXCEPT ![t] = "moved"]
    /\ UNCHANGED local

\* if (x) local = 1; else local = 2;
sc_test(t) ==
    /\ step[t] \in {"minted", "moved"}
    /\ pc[t] = "idle"
    /\ \E p \in Mine(t) :
          local' = [local EXCEPT ![t] = IF operator_bool(p) THEN 1 ELSE 2]
    /\ UNCHANGED <<cell, step>>

\* *x returns
sc_use(t) ==
    /\ step[t] \in {"minted", "moved"}
    /\ \E p \in Mine(t) : operator_star(t, p) /\ deref(p) # out_of_range
    /\ step' = [step EXCEPT ![t] = "used"]
    /\ UNCHANGED local

\* *x = v returns
sc_write(t) ==
    /\ step[t] \in {"minted", "moved"}
    /\ \E p \in Mine(t), v \in Values :
          assign(t, p, v) /\ deref(p) # out_of_range
    /\ step' = [step EXCEPT ![t] = "used"]
    /\ UNCHANGED local

\* *x throws
sc_throw(t) ==
    /\ step[t] \in {"minted", "moved", "used"}
    /\ \E p \in Mine(t) : operator_star(t, p) /\ deref(p) = out_of_range
    /\ step' = [step EXCEPT ![t] = "thrown"]
    /\ UNCHANGED local

\* the end of the block is reached
sc_leave(t) ==
    /\ step[t] \in {"minted", "moved", "used"}
    /\ pc[t] = "idle"
    /\ UNCHANGED cell
    /\ step' = [step EXCEPT ![t] = "leaving"]
    /\ UNCHANGED local

\* leaving the block, normally or unwinding: the destructor of the proxy
\* constructed last (the valid one, if one was moved) runs first
sc_unwind(t) ==
    /\ step[t] \in {"thrown", "leaving"}
    /\ \E p \in Mine(t) :
          /\ is_valid(p) \/ \A q \in Mine(t) : ~is_valid(q)
          /\ destroy_proxy(t, p)
    /\ UNCHANGED scenario

sc_unwound(t) == destroy_shptr(t) /\ UNCHANGED scenario

\* the block has been left: by its end, or into the handler
sc_exit(t) ==
    /\ step[t] \in {"thrown", "leaving"}
    /\ pc[t] = "idle"
    /\ Holds(t) = {}
    /\ UNCHANGED cell
    /\ step' = [step EXCEPT ![t] = IF step[t] = "thrown" THEN "caught" ELSE "exited"]
    /\ UNCHANGED local

NextScope ==
    \E t \in Users :
        \/ sc_mint(t) /\ UNCHANGED refcounted
        \/ sc_writer_enter(t) /\ UNCHANGED refcounted
        \/ sc_unique_lock(t) /\ UNCHANGED refcounted
        \/ sc_shared_lock(t) /\ UNCHANGED refcounted
        \/ sc_move(t) /\ UNCHANGED refcounted
        \/ sc_test(t) /\ UNCHANGED refcounted
        \/ sc_use(t) /\ UNCHANGED refcounted
        \/ sc_write(t) /\ UNCHANGED refcounted
        \/ sc_throw(t) /\ UNCHANGED refcounted
        \/ sc_leave(t) /\ UNCHANGED refcounted
        \/ sc_unwind(t) /\ UNCHANGED refcounted
        \/ sc_unwound(t) /\ UNCHANGED refcounted
        \/ sc_exit(t) /\ UNCHANGED refcounted

SpecScope == InitScope /\ [][NextScope]_vars

\* ------------------------------------------------------------- SpecLive
\* The disciplined scenario on a cell of any kind: every thread calls ptr() or
\* const_ptr() of the shared requester at most MaxMints times, never while it
\* has a proxy, and destroys each proxy it got. local[t] counts the calls of t.
\* A call waiting in lock()/lock_shared() for a mutex that stays available
\* acquires it, and every proxy is eventually destroyed.
InitLive ==
    /\ kind \in Kinds
    /\ requesters = {1}
    /\ use_count = 1
    /\ InitCell

lv_ptr(t) ==
    /\ Holds(t) = {}
    /\ local[t] < MaxMints
    /\ ptr(t, 1)
    /\ local' = [local EXCEPT ![t] = @ + 1]
    /\ UNCHANGED step

lv_const_ptr(t) ==
    /\ Holds(t) = {}
    /\ local[t] < MaxMints
    /\ const_ptr(t, 1)
    /\ local' = [local EXCEPT ![t] = @ + 1]
    /\ UNCHANGED step

lv_writer_enter(t) == writer_enter(t) /\ UNCHANGED scenario

lv_unique_lock(t) == unique_lock(t) /\ UNCHANGED <<scenario, refcounted>>

lv_shared_lock(t) == shared_lock(t) /\ UNCHANGED <<scenario, refcounted>>

lv_release(t) ==
    (\E p \in Mine(t) : destroy_proxy(t, p)) /\ UNCHANGED <<scenario, refcounted>>

lv_released(t) == destroy_shptr(t) /\ UNCHANGED <<scenario, refcounted>>

NextLive ==
    \E t \in Threads :
        \/ lv_ptr(t) /\ UNCHANGED refcounted
        \/ lv_const_ptr(t) /\ UNCHANGED refcounted
        \/ lv_writer_enter(t) /\ UNCHANGED refcounted
        \/ lv_unique_lock(t)
        \/ lv_shared_lock(t)
        \/ lv_release(t)
        \/ lv_released(t)

FairLive ==
    \A t \in Threads :
        /\ WF_vars(lv_unique_lock(t))
        /\ WF_vars(lv_shared_lock(t))
        /\ WF_vars(lv_release(t))
        /\ WF_vars(lv_released(t))

SpecLive == InitLive /\ [][NextLive]_vars /\ FairLive

\* ------------------------------------------------------------- mserefcounted.h
TRefCountedPointer == "TRefCountedPointer"
TRefCountedFixedPointer == "TRefCountedFixedPointer"

\* the heap and the pointer objects as one value
Heap == [m_counter |-> m_counter, destructions |-> destructions,
         next |-> next, ptrs |-> ptrs]

\* a pointer object is named by its variable, the member `next` of a target
\* by the target; nullptr stands for a temporary TRefCountedPointer(nullptr)
Var(v) == <<"var", v>>
NextOf(x) == <<"next", x>>
nullptr == <<"nullptr", 0>>

\* m_ref_with_target_obj_ptr of the pointer object at loc
get(h, loc) ==
    CASE loc[1] = "var" -> h.ptrs[loc[2]].m_ref_with_target_obj_ptr
      [] loc[1] = "next" -> h.next[loc[2]]
      [] OTHER -> 0

set(h, loc, c) ==
    CASE loc[1] = "var" -> [h EXCEPT !.ptrs[loc[2]].m_ref_with_target_obj_ptr = c]
      [] loc[1] = "next" -> [h EXCEPT !.next[loc[2]] = c]
      [] OTHER -> h

\* CRefCounter
increment(h, c) == [h EXCEPT !.m_counter[c] = @ + 1]
decrement(h, c) == [h EXCEPT !.m_counter[c] = @ - 1]
CRefCounter_use_count(h, c) == h.m_counter[c]

\* fault injection: the pointer is stored without counting it
Bug_acquire(h, loc, c) == set(h, loc, c)

\* acquire(c) of the pointer object at loc
acquire(h, loc, c) ==
    IF c # 0 THEN increment(set(h, loc, c), c) ELSE set(h, loc, c)

\* fault injection: the target is deleted by every release
RECURSIVE Bug_dorelease(_, _)
Bug_dorelease(h, c) ==
    IF c = 0 THEN h
    ELSE IF h.destructions[c] > 0
         THEN [h EXCEPT !.destructions[c] = @ + 1]
         ELSE Bug_dorelease([h EXCEPT !.destructions[c] = 1, !.next[c] = 0], h.next[c])

\* dorelease(c): delete the target if this is its only reference, else
\* decrement. delete runs ~TRefWithTargetObj, which destroys the object and
\* with it the member `next`, releasing what that references. (Deleting a
\* target again is only counted.)
RECURSIVE dorelease(_, _)
dorelease(h, c) ==
    IF c = 0 THEN h
    ELSE IF CRefCounter_use_count(h, c) = 1
         THEN IF h.destructions[c] > 0
              THEN [h EXCEPT !.destructions[c] = @ + 1]
              ELSE dorelease([h EXCEPT !.destructions[c] = 1, !.next[c] = 0], h.next[c])
         ELSE decrement(h, c)

\* fault injection: the old target is released before the new one is acquired
Bug_operator_assign(h, dst, src) ==
    IF dst = src THEN h
    ELSE LET released == dorelease(h, get(h, dst))
         IN acquire(released, dst, get(released, src))

\* operator=(const TRefCountedPointer& r): unless this == &r, keep the old
\* target in an auto_release, acquire r's target, and release the old one
\* when the auto_release goes out of scope
operator_assign(h, dst, src) ==
    IF dst = src THEN h
    ELSE LET keep == get(h, dst)
         IN dorelease(acquire(h, dst, get(h, src)), keep)

\* fault injection: operator* without the null test
Bug_pointer_deref(v) == Ok(ptrs[v].m_ref_with_target_obj_ptr)

\* operator* / operator->: TRefCountedPointer throws std::out_of_range when
\* null; TRefCountedNotNullPointer's, which TRefCountedFixedPointer inherits,
\* has no test
pointer_deref(v) ==
    IF ptrs[v].m_ref_with_target_obj_ptr # 0 THEN Ok(ptrs[v].m_ref_with_target_obj_ptr)
    ELSE IF ptrs[v].cls = TRefCountedPointer THEN out_of_range
    ELSE <<"undefined">>

LivePtrs == {v \in PtrIds : ptrs[v].cls # "none"}
FreePtrs == PtrIds \ LivePtrs
NewPtr == CHOOSE v \in FreePtrs : \A w \in FreePtrs : v <= w
FreshTargets == {x \in Targets : constructions[x] = 0}
NewTarget == CHOOSE x \in FreshTargets : \A y \in FreshTargets : x <= y

\* the targets the program can name: those a pointer variable references
Reachable == {x \in Targets : \E v \in LivePtrs : ptrs[v].m_ref_with_target_obj_ptr = x}

\* the pointer objects operator= can be called on, and its arguments
Assignable ==
    {Var(v) : v \in {w \in LivePtrs : ptrs[w].cls = TRefCountedPointer}}
        \cup {NextOf(x) : x \in Reachable}
Sources == {Var(v) : v \in LivePtrs} \cup {NextOf(x) : x \in Reachable} \cup {nullptr}

\* the program has not been ended by an undefined dereference
Running == step[1] # "crashed"

Becomes(h) ==
    /\ m_counter' = h.m_counter
    /\ destructions' = h.destructions
    /\ next' = h.next
    /\ ptrs' = h.ptrs

\* no cell of mseasyncshared.h exists
NoCell ==
    /\ kind = make_asyncshared
    /\ created = 0
    /\ payload = 0
    /\ use_count = 0
    /\ destroyed = 0
    /\ m_mutex1 = [writer |-> FALSE, readers |-> 0]
    /\ requesters = {}
    /\ proxy = [p \in ProxyIds |-> NoProxy]
    /\ pc = [t \in Threads |-> "idle"]
    /\ cur = [t \in Threads |-> 0]

InitRefCounted ==
    /\ NoCell
    /\ step = [t \in Threads |-> "start"]
    /\ local = [t \in Threads |-> 0]
    /\ NoRefCounted

\* auto p = make_refcounted<X>(...): a new target, counter 1, held by a new
\* TRefCountedFixedPointer
make_refcounted ==
    /\ Running
    /\ FreePtrs # {}
    /\ FreshTargets # {}
    /\ constructions' = [constructions EXCEPT ![NewTarget] = 1]
    /\ m_counter' = [m_counter EXCEPT ![NewTarget] = 1]
    /\ ptrs' = [ptrs EXCEPT ![NewPtr] =
            [cls |-> TRefCountedFixedPointer, m_ref_with_target_obj_ptr |-> NewTarget,
             made |-> NewTarget]]
    /\ UNCHANGED <<destructions, next, cell, scenario>>

\* TRefCountedPointer p; (null)
default_pointer ==
    /\ Running
    /\ FreePtrs # {}
    /\ ptrs' = [ptrs EXCEPT ![NewPtr] =
            [cls |-> TRefCountedPointer, m_ref_with_target_obj_ptr |-> 0, made |-> 0]]
    /\ UNCHANGED <<m_counter, constructions, destructions, next, cell, scenario>>

\* the copy constructors: a TRefCountedPointer from any pointer, a
\* TRefCountedFixedPointer from a TRefCountedFixedPointer
copy_pointer(v, cls) ==
    /\ Running
    /\ v \in LivePtrs
    /\ FreePtrs # {}
    /\ cls \in {TRefCountedPointer, TRefCountedFixedPointer}
    /\ cls = TRefCountedFixedPointer => ptrs[v].cls = TRefCountedFixedPointer
    /\ LET c == ptrs[v].m_ref_with_target_obj_ptr
           h == [Heap EXCEPT !.ptrs[NewPtr] =
                    [cls |-> cls, m_ref_with_target_obj_ptr |-> 0,
                     made |-> IF cls = TRefCountedFixedPointer THEN c ELSE 0]]
       IN Becomes(acquire(h, Var(NewPtr), c))
    /\ UNCHANGED <<constructions, cell, scenario>>

\* dst = src
pointer_assign(dst, src) ==
    /\ Running
    /\ dst \in Assignable
    /\ src \in Sources
    /\ Becomes(operator_assign(Heap, dst, src))
    /\ UNCHANGED <<constructions, cell, scenario>>

\* clear(): (*this) = TRefCountedPointer<X>(nullptr), a public member of
\* TRefCountedPointer that the derived classes inherit
clear(v) ==
    /\ Running
    /\ v \in LivePtrs
    /\ Becomes(operator_assign(Heap, Var(v), nullptr))
    /\ UNCHANGED <<constructions, cell, scenario>>

\* ~TRefCountedPointer: release()
destroy_pointer(v) ==
    /\ Running
    /\ v \in LivePtrs
    /\ Becomes([dorelease(Heap, ptrs[v].m_ref_with_target_obj_ptr) EXCEPT !.ptrs[v] = NoPtr])
    /\ UNCHANGED <<constructions, cell, scenario>>

\* try { *v ... } catch (...) { }: the dereference returns or throws; that of
\* a null TRefCountedFixedPointer is undefined and may end the program
try_deref(v) ==
    /\ Running
    /\ v \in LivePtrs
    /\ \/ /\ pointer_deref(v) = out_of_range
          /\ step' = [step EXCEPT ![1] = "thrown"]
       \/ /\ pointer_deref(v)[1] = "ok"
          /\ step' = [step EXCEPT ![1] = "used"]
       \/ /\ pointer_deref(v)[1] = "undefined"
          /\ \E outcome \in {"used", "crashed"} : step' = [step EXCEPT ![1] = outcome]
    /\ UNCHANGED <<cell, local, refcounted>>

NextRefCounted ==
    \/ make_refcounted
    \/ default_pointer
    \/ \E v \in PtrIds, cls \in {TRefCountedPointer, TRefCountedFixedPointer} :
          copy_pointer(v, cls)
    \/ \E dst \in Assignable, src \in Sources : pointer_assign(dst, src)
    \/ \E v \in PtrIds : clear(v)
    \/ \E v \in PtrIds : destroy_pointer(v)
    \/ \E v \in PtrIds : try_deref(v)

SpecRefCounted == InitRefCounted /\ [][NextRefCounted]_vars

\* ============================================================= properties
\* proxies that are complete, not being destroyed, and not moved-from
Alive(types) ==
    {p \in ProxyIds : proxy[p].st = "live" /\ proxy[p].m_shptr /\ proxy[p].typ \in types}

\* a thread whose ptr()/const_ptr() call for a proxy of one of the types has
\* not returned yet
Waiting(t, types) ==
    pc[t] \in {"lock", "entered"} /\ proxy[cur[t]].typ \in types

\* the waiting call of thread t can return now
CanReturn(t) == ENABLED (unique_lock(t) \/ shared_lock(t))

ExclusivePointers == {TAsyncSharedPointer, NoMutableMembersPointer}
GeneralPointers == {TAsyncSharedPointer, TAsyncSharedConstPointer}

\* C1: at most one valid exclusive proxy (TAsyncSharedPointer or
\* ...NoMutableMembersPointer) is alive at a time, and a ptr() call that waits
\* while one is alive cannot return.
C1_OneExclusivePointer ==
    /\ Cardinality(Alive(ExclusivePointers)) <= 1
    /\ \A t \in Threads :
          Waiting(t, ExclusivePointers) /\ Alive(ExclusivePointers) # {}
              => ~CanReturn(t)

\* a ptr() call of one thread waits while another thread's exclusive proxy is alive
C1_Witness ==
    \E t \in Threads, p \in Alive(ExclusivePointers) :
        Waiting(t, ExclusivePointers) /\ proxy[p].owner # t

\* C2: on the general mutable-capable path at most one valid proxy of either
\* class is alive at a time; a ptr() or const_ptr() call that waits while one
\* is alive cannot return.
C2_GeneralPathExclusive ==
    /\ Cardinality(Alive(GeneralPointers)) <= 1
    /\ \A t \in Threads :
          Waiting(t, GeneralPointers) /\ Alive(GeneralPointers) # {}
              => ~CanReturn(t)

\* a const_ptr() call waits while another thread's TAsyncSharedConstPointer is alive
C2_Witness ==
    \E t \in Threads, p \in Alive({TAsyncSharedConstPointer}) :
        Waiting(t, {TAsyncSharedConstPointer}) /\ proxy[p].owner # t

\* C3: on the pure mutable-capable path an exclusive proxy and a shared-const
\* proxy are never alive together; ptr() cannot return while a shared-const
\* proxy is alive, const_ptr() cannot return while the exclusive proxy is.
C3_PureWriterExcludesReaders ==
    /\ Alive({NoMutableMembersPointer}) = {} \/ Alive({NoMutableMembersConstPointer}) = {}
    /\ \A t \in Threads :
          /\ Waiting(t, {NoMutableMembersPointer})
                /\ Alive({NoMutableMembersConstPointer}) # {} => ~CanReturn(t)
          /\ Waiting(t, {NoMutableMembersConstPointer})
                /\ Alive({NoMutableMembersPointer}) # {} => ~CanReturn(t)

\* a ptr() call waits while another thread's shared-const proxy is alive
C3_Witness ==
    \E t \in Threads, p \in Alive({NoMutableMembersConstPointer}) :
        Waiting(t, {NoMutableMembersPointer}) /\ proxy[p].owner # t

\* every proxy that owns the cell's lock is a ...NoMutableMembersConstPointer
OnlySharedHolders ==
    \A p \in ProxyIds : proxy[p].owns => proxy[p].typ = NoMutableMembersConstPointer

\* C4 as stated: whenever the lock is free or held by shared-const proxies only,
\* a waiting const_ptr() call for a ...NoMutableMembersConstPointer can return
\* (stated for a caller that holds no proxy itself).
C4_ReadersNeverWait ==
    \A t \in Threads :
        /\ Waiting(t, {NoMutableMembersConstPointer})
        /\ Mine(t) = {}
        /\ OnlySharedHolders
        => CanReturn(t)

\* C4 amended: whenever the lock is free or held by shared-const proxies only,
\* and no ptr() call is waiting for the lock, a waiting const_ptr() call for a
\* ...NoMutableMembersConstPointer can return.
C4_ReadersWaitOnlyForWriters ==
    \A t \in Threads :
        /\ Waiting(t, {NoMutableMembersConstPointer})
        /\ OnlySharedHolders
        /\ \A u \in Threads : ~Waiting(u, ExclusivePointers)
        => CanReturn(t)

\* a const_ptr() call is about to return while another thread's shared-const
\* proxy is alive
C4_Witness ==
    \E t \in Threads, p \in Alive({NoMutableMembersConstPointer}) :
        /\ Waiting(t, {NoMutableMembersConstPointer})
        /\ proxy[p].owner # t
        /\ proxy[p].owns
        /\ \A u \in Threads : ~Waiting(u, ExclusivePointers)

\* C5: on the pure immutable path const_ptr() never waits and never touches
\* the lock: no call is ever inside the lock, the lock stays free, and the
\* call is enabled whenever a thread has a requester to call it on.
C5_PureImmutableNeverBlocks ==
    kind = make_nomutablemembersimmutable =>
        /\ m_mutex1 = [writer |-> FALSE, readers |-> 0]
        /\ \A t \in Threads : pc[t] \notin {"lock", "entered"}
        /\ \A p \in ProxyIds : ~proxy[p].owns
        /\ \A t \in Threads, r \in requesters :
              pc[t] = "idle" /\ FreeSlots # {} => ENABLED const_ptr(t, r)

\* two pure immutable proxies of two threads are alive together
C5_Witness ==
    \E p, q \in Alive({NoMutableMembersImmutableConstPointer}) :
        proxy[p].owner # proxy[q].owner

\* C6: on the general immutable path at most one valid
\* TAsyncSharedImmutableConstPointer is alive at a time, and a const_ptr()
\* call that waits while one is alive cannot return.
C6_ImmutableConstExclusive ==
    /\ Cardinality(Alive({TAsyncSharedImmutableConstPointer})) <= 1
    /\ \A t \in Threads :
          /\ Waiting(t, {TAsyncSharedImmutableConstPointer})
          /\ Alive({TAsyncSharedImmutableConstPointer}) # {}
          => ~CanReturn(t)

\* a second const_ptr() call waits while another thread's proxy is alive
C6_Witness ==
    \E t \in Threads, p \in Alive({TAsyncSharedImmutableConstPointer}) :
        Waiting(t, {TAsyncSharedImmutableConstPointer}) /\ proxy[p].owner # t

\* C7: when every thread of the counter scenario has finished, the payload is
\* its initial value plus the number of threads.
C7_NoLostUpdate ==
    (\A t \in Threads : step[t] = "done") => payload = created + NumThreads

\* all threads have finished and every increment is there
C7_Witness ==
    /\ \A t \in Threads : step[t] = "done"
    /\ payload = created + NumThreads

\* C8: a cell made by one of the two immutable factories never has an
\* exclusive proxy, complete or under construction.
C8_ImmutableHasNoExclusivePointer ==
    kind \in {make_asyncsharedimmutable, make_nomutablemembersimmutable} =>
        \A p \in ProxyIds : proxy[p].typ \notin ExclusivePointers

\* an immutable cell whose requester has been copied, with a const proxy that
\* was minted and moved and another one alive
C8_Witness ==
    /\ kind \in {make_asyncsharedimmutable, make_nomutablemembersimmutable}
    /\ Cardinality(requesters) = 2
    /\ \E p, q \in ProxyIds :
          /\ proxy[p].st = "live" /\ ~proxy[p].m_shptr
          /\ proxy[q].st = "live" /\ proxy[q].m_shptr

\* C9: every read through a valid pure immutable proxy gives the value the
\* cell was created with.
C9_PureImmutableReadsCreated ==
    \A p \in Alive({NoMutableMembersImmutableConstPointer}) : deref(p) = Ok(created)

\* two threads hold valid pure immutable proxies at the same time
C9_Witness ==
    \E p, q \in Alive({NoMutableMembersImmutableConstPointer}) :
        /\ proxy[p].owner # proxy[q].owner
        /\ deref(p) = Ok(created)
        /\ deref(q) = Ok(created)

\* the proxies whose lock member owns the cell's lock
LockOwners == {p \in ProxyIds : proxy[p].owns}

\* C10: a move construction from a valid proxy leaves the source invalid
\* (operator* throws std::out_of_range) and the destination valid (operator*
\* gives the payload); the lock is not touched, and the source's ownership of
\* it, if any, is now the destination's.
C10_MoveTransfers ==
    [][\A t \in Threads, p \in ProxyIds :
          move(t, p) /\ is_valid(p) =>
              \E q \in ProxyIds \ {p} :
                  /\ proxy[q].st = "free"
                  /\ proxy'[q].st = "live"
                  /\ proxy'[q].owner = t
                  /\ (deref(p))' = out_of_range
                  /\ (deref(q))' = Ok(payload')
                  /\ m_mutex1' = m_mutex1
                  /\ use_count' = use_count
                  /\ LockOwners' = IF p \in LockOwners
                                   THEN (LockOwners \ {p}) \cup {q}
                                   ELSE LockOwners]_vars

\* a moved-from proxy and a valid proxy that owns the lock, in one thread,
\* while another thread waits for the lock
C10_Witness ==
    \E t, u \in Threads, p, q \in ProxyIds :
        /\ t # u
        /\ proxy[p].st = "live" /\ proxy[p].owner = t /\ ~proxy[p].m_shptr
        /\ proxy[q].st = "live" /\ proxy[q].owner = t /\ proxy[q].m_shptr /\ proxy[q].owns
        /\ pc[u] = "lock"


\* the proxy objects whose m_shptr references the cell (complete, under
\* construction or in their destructor)
Referencing == {p \in ProxyIds : proxy[p].st # "free" /\ proxy[p].m_shptr}

\* C11: a cell that is referenced by a live requester or by a proxy has not
\* been destroyed, so operator* of a valid proxy reaches a live cell, also
\* when no requester is left.
C11_ReferencedCellIsAlive ==
    /\ requesters # {} \/ Referencing # {} => destroyed = 0
    /\ \A p \in ProxyIds :
          proxy[p].st = "live" /\ is_valid(p) => destroyed = 0 /\ deref(p) = Ok(payload)

\* every requester has been destroyed and a valid proxy still reaches the cell
C11_Witness ==
    /\ requesters = {}
    /\ \E p \in ProxyIds : proxy[p].st = "live" /\ is_valid(p) /\ deref(p) = Ok(payload)
    /\ destroyed = 0


\* C12: the cell is destroyed at most once, by the step that takes the owner
\* count from one to zero, and it has been destroyed once no requester and no
\* proxy references it any more, whichever thread dropped which reference when.
C12_DestroyedExactlyOnce ==
    /\ [](/\ destroyed \in {0, 1}
          /\ destroyed = 1 <=> use_count = 0
          /\ requesters = {} /\ Referencing = {} => destroyed = 1)
    /\ [][destroyed' # destroyed =>
             /\ destroyed = 0 /\ destroyed' = 1
             /\ use_count = 1 /\ use_count' = 0
             /\ requesters' = {} /\ Referencing' = {}]_vars

\* the cell has been destroyed after its requesters were copied and destroyed
\* and a proxy was moved: the moved-from proxy object is still there
C12_Witness ==
    /\ destroyed = 1
    /\ use_count = 0
    /\ requesters = {}
    /\ \E p \in ProxyIds : proxy[p].st = "live" /\ ~is_valid(p)


\* the proxy classes with an m_unique_lock member, and all with a lock member
ExclusiveLocking == {TAsyncSharedPointer, TAsyncSharedConstPointer,
                     TAsyncSharedImmutableConstPointer, NoMutableMembersPointer}
LockBearing == ExclusiveLocking \cup {NoMutableMembersConstPointer}

\* C13: the lock is held exclusively iff exactly one valid exclusive-locking
\* proxy exists, its shared count is the number of valid
\* ...NoMutableMembersConstPointer proxies, it is unlocked iff no valid
\* lock-bearing proxy exists, and the proxies that own the lock are exactly the
\* valid lock-bearing proxies.
C13_LockMatchesProxies ==
    /\ Cardinality(Alive(ExclusiveLocking)) <= 1
    /\ m_mutex1.writer <=> Cardinality(Alive(ExclusiveLocking)) = 1
    /\ m_mutex1.readers = Cardinality(Alive({NoMutableMembersConstPointer}))
    /\ m_mutex1 = [writer |-> FALSE, readers |-> 0] <=> Alive(LockBearing) = {}
    /\ LockOwners = Alive(LockBearing)

\* the lock is held shared twice by two valid shared-const proxies, one of
\* which was move-constructed from a proxy that is still there
C13_Witness ==
    /\ m_mutex1.readers = 2
    /\ Cardinality(Alive({NoMutableMembersConstPointer})) = 2
    /\ \E p \in ProxyIds : proxy[p].st = "live" /\ ~is_valid(p)


\* C14: a proxy in its destructor that still holds its reference has released
\* its lock already; the step that destroys the cell finds the lock unlocked
\* and owned by no proxy, and a destroyed cell's lock is unlocked.
C14_NeverDestroyedLocked ==
    /\ [](/\ \A t \in Threads : pc[t] = "dtor" => ~proxy[cur[t]].owns
          /\ destroyed > 0 =>
                m_mutex1 = [writer |-> FALSE, readers |-> 0] /\ LockOwners = {})
    /\ [][destroyed' # destroyed =>
             /\ m_mutex1 = [writer |-> FALSE, readers |-> 0]
             /\ m_mutex1' = m_mutex1
             /\ LockOwners = {}]_vars

\* the last reference to the cell is a lock-bearing proxy in its destructor:
\* its lock member is gone and the lock is free, its m_shptr is about to
\* delete the cell
C14_Witness ==
    \E t \in Threads :
        /\ pc[t] = "dtor"
        /\ proxy[cur[t]].typ \in LockBearing
        /\ proxy[cur[t]].m_shptr
        /\ requesters = {}
        /\ use_count = 1
        /\ m_mutex1 = [writer |-> FALSE, readers |-> 0]


\* C15: every lock-bearing proxy object is either valid, with m_shptr set and
\* its lock member owning the lock, or invalid, with m_shptr null and its lock
\* member owning nothing.
C15_ValidOrInvalid ==
    \A p \in ProxyIds :
        proxy[p].st = "live" /\ proxy[p].typ \in LockBearing =>
            \/ proxy[p].m_shptr /\ proxy[p].owns
            \/ ~proxy[p].m_shptr /\ ~proxy[p].owns

\* a thread has a moved-from lock-bearing proxy (both members cleared) next to
\* the valid proxy that was move-constructed from it (both members set)
C15_Witness ==
    \E p, q \in ProxyIds :
        /\ proxy[p].st = "live" /\ proxy[p].typ \in LockBearing
        /\ ~proxy[p].m_shptr /\ ~proxy[p].owns
        /\ proxy[q].st = "live" /\ proxy[q].typ = proxy[p].typ
        /\ proxy[q].owner = proxy[p].owner
        /\ proxy[q].m_shptr /\ proxy[q].owns


\* the threads that have left their block, by its end or by the exception
Exited == {t \in Threads : step[t] \in {"exited", "caught"}}

\* C16: a thread that has left its block, at its end or by std::out_of_range
\* thrown while its proxy was alive, has no proxy left and owns no lock; when
\* all threads but those waiting in a mint have left, the lock is free and a
\* waiting mint can return.
C16_LockReleasedOnEveryExit ==
    /\ \A t \in Exited : Holds(t) = {}
    /\ \A p \in LockOwners : proxy[p].owner \notin Exited
    /\ (\A t \in Users : t \in Exited \/ pc[t] \in {"lock", "entered"})
         /\ (\E u \in Users : pc[u] \in {"lock", "entered"})
         => /\ m_mutex1 = [writer |-> FALSE, readers |-> 0]
            /\ \E u \in Users : CanReturn(u)

\* a thread has left its block by the exception, the lock it held is free and
\* another thread's mint is waiting for it
C16_Witness ==
    \E t, u \in Threads :
        /\ step[t] = "caught"
        /\ Waiting(u, LockBearing)
        /\ m_mutex1 = [writer |-> FALSE, readers |-> 0]


\* C17: operator* of a moved-from proxy gives std::out_of_range, never the
\* payload; the step in which a thread's dereference throws is one through a
\* moved-from proxy and leaves the lock, the owner count, the payload and the
\* proxies as they were, and a dereference that returns is one through a
\* valid proxy.
C17_InvalidDerefThrows ==
    /\ [](\A p \in ProxyIds :
             proxy[p].st = "live" /\ ~is_valid(p) => deref(p) = out_of_range)
    /\ [][\A t \in Threads :
             /\ step[t] # "thrown" /\ step'[t] = "thrown" =>
                   /\ \E p \in Mine(t) : ~is_valid(p) /\ deref(p) = out_of_range
                   /\ UNCHANGED <<m_mutex1, use_count, payload, destroyed, proxy>>
             /\ step[t] # "used" /\ step'[t] = "used" =>
                   \E p \in Mine(t) : is_valid(p) /\ deref(p) = Ok(payload)]_vars

\* a dereference of a moved-from proxy has thrown while the proxy
\* move-constructed from it owns the lock
C17_Witness ==
    \E t \in Threads : \E p, q \in Mine(t) :
        /\ step[t] = "thrown"
        /\ ~is_valid(p) /\ deref(p) = out_of_range
        /\ is_valid(q) /\ proxy[q].owns


\* C18: a step that changes the payload is an assignment by a thread through
\* one of its valid exclusive proxies whose lock member owns the exclusively
\* held lock; every other step leaves the payload unchanged.
C18_WritesOnlyThroughExclusive ==
    [][payload' # payload =>
          \E t \in Threads, p \in Alive(ExclusivePointers) :
              /\ proxy[p].owner = t
              /\ proxy[p].owns
              /\ m_mutex1.writer /\ m_mutex1'.writer
              /\ \E v \in Values : assign(t, p, v)]_vars

\* the payload has been changed and the exclusive proxy of the writer still
\* owns the lock, while another thread waits in const_ptr()
C18_Witness ==
    \E p \in Alive(ExclusivePointers), u \in Threads :
        /\ payload # created
        /\ proxy[p].owns
        /\ proxy[p].owner # u
        /\ Waiting(u, ProxyTypes \ ExclusivePointers)


\* C19: a thread that is not inside a call can copy and destroy any live
\* requester, whatever the state of the lock, and can use, move and destroy
\* its proxies; a destructor under way can finish; so a thread is only ever
\* held up inside ptr()/const_ptr(). A step that adds or removes a requester
\* changes the owner count by one and leaves the lock, the payload, the
\* proxies and the other threads' calls as they were.
C19_OnlyMintBlocks ==
    /\ [](\A t \in Users :
             /\ pc[t] \in {"idle", "lock", "entered", "dtor"}
             /\ pc[t] = "dtor" => ENABLED destroy_shptr(t)
             /\ pc[t] = "idle" =>
                   /\ \A r \in requesters :
                         /\ ENABLED destroy_requester(t, r)
                         /\ FreeReqs # {} => ENABLED copy_requester(t, r)
                   /\ \A p \in Mine(t) :
                         /\ ENABLED destroy_proxy(t, p)
                         /\ ENABLED operator_star(t, p)
                         /\ FreeSlots # {} => ENABLED move(t, p))
    /\ [][requesters' # requesters =>
             /\ m_mutex1' = m_mutex1
             /\ payload' = payload
             /\ proxy' = proxy
             /\ pc' = pc
             /\ \/ /\ Cardinality(requesters') = Cardinality(requesters) + 1
                   /\ use_count' = use_count + 1
                \/ /\ Cardinality(requesters') = Cardinality(requesters) - 1
                   /\ use_count' = use_count - 1]_vars

\* the requester has been copied; one thread's proxy owns the lock and the
\* other thread's mint cannot return
C19_Witness ==
    \E t, u \in Threads, p \in Alive(LockBearing) :
        /\ Cardinality(requesters) = 2
        /\ proxy[p].owner = t /\ proxy[p].owns
        /\ Waiting(u, LockBearing)
        /\ ~CanReturn(u)


\* the constructor parameters (shptr, by value) of the mints under way
MintsInProgress == {t \in Threads : pc[t] \in {"lock", "entered"}}

\* C20: the owner count equals the number of live requesters plus the number
\* of proxies whose m_shptr references the cell plus the number of mints
\* under way (each holds the constructor's by-value parameter), in every
\* state of every interleaving, whoever holds the lock.
C20_OwnerCountExact ==
    use_count = Cardinality(requesters) + Cardinality(Referencing)
                    + Cardinality(MintsInProgress)

\* two requesters, a valid proxy that owns the lock, the moved-from proxy it
\* was constructed from, and another thread's mint under way: five owners
C20_Witness ==
    \E t \in Threads : \E p, q \in Mine(t) :
        /\ Cardinality(requesters) = 2
        /\ is_valid(p) /\ proxy[p].owns
        /\ ~is_valid(q)
        /\ MintsInProgress # {}
        /\ use_count = 5


\* C21: when every proxy is eventually destroyed and only finitely many mints
\* are requested, every ptr()/const_ptr() call that waits for the lock
\* eventually returns, and what it returns is a valid proxy that owns the lock.
C21_PendingMintReturns ==
    \A t \in Threads :
        Waiting(t, LockBearing) ~>
            (pc[t] = "idle" /\ \E p \in Mine(t) : is_valid(p) /\ proxy[p].owns)

\* a ptr() call has announced itself behind a shared owner and a const_ptr()
\* call of a third thread waits behind it
C21_Witness ==
    \E t, u \in Threads :
        /\ pc[t] = "entered"
        /\ Waiting(u, {NoMutableMembersConstPointer})
        /\ m_mutex1.readers > 0


\* the targets that have been constructed and not deleted
LiveTargets == {x \in Targets : constructions[x] = 1 /\ destructions[x] = 0}

\* the pointer objects that reference target x: pointer variables and the
\* `next` members of live targets
Refs(x) ==
    {Var(v) : v \in {w \in LivePtrs : ptrs[w].m_ref_with_target_obj_ptr = x}}
        \cup {NextOf(y) : y \in {z \in LiveTargets : next[z] = x}}

\* C22: a target is deleted at most once; it is not deleted while a pointer
\* references it and has been deleted once none does; the step that deletes it
\* is the one in which its only remaining reference goes away.
C22_TargetDestroyedOnce ==
    /\ [](\A x \in Targets :
             /\ destructions[x] <= 1
             /\ Refs(x) # {} => constructions[x] = 1 /\ destructions[x] = 0
             /\ constructions[x] = 1 /\ Refs(x) = {} => destructions[x] = 1)
    /\ [][\A x \in Targets :
             destructions'[x] # destructions[x] =>
                 /\ destructions[x] = 0 /\ destructions'[x] = 1
                 /\ Cardinality(Refs(x)) = 1
                 /\ Refs(x)' = {}]_vars

\* one target has been deleted while another, referenced by a pointer and a
\* copy of it, is alive
C22_Witness ==
    \E x, y \in Targets :
        /\ destructions[x] = 1
        /\ y \in LiveTargets
        /\ Cardinality(Refs(y)) = 2
        /\ m_counter[y] = 2


\* the null TRefCountedPointer variables
NullPointers ==
    {v \in LivePtrs : ptrs[v].cls = TRefCountedPointer
                        /\ ptrs[v].m_ref_with_target_obj_ptr = 0}

\* C23: operator* of a null TRefCountedPointer gives std::out_of_range, and
\* the step in which a dereference throws is one of a null TRefCountedPointer
\* and leaves every counter, target and pointer as it was.
C23_NullDerefThrows ==
    /\ [](\A v \in NullPointers : pointer_deref(v) = out_of_range)
    /\ [][step[1] # "thrown" /\ step'[1] = "thrown" =>
             /\ NullPointers # {}
             /\ UNCHANGED refcounted]_vars

\* a dereference has thrown: a pointer that was assigned nullptr is null while
\* the target it was copied from is still held, with counter 1
C23_Witness ==
    \E v \in NullPointers, w \in LivePtrs :
        /\ step[1] = "thrown"
        /\ ptrs[w].cls = TRefCountedPointer
        /\ ptrs[w].m_ref_with_target_obj_ptr \in LiveTargets
        /\ m_counter[ptrs[w].m_ref_with_target_obj_ptr] = 1


\* C24: when pointer p is the only reference to target a and a's `next` is
\* the only reference to target b, the assignment p = p->next deletes a once,
\* leaves b alive with counter 1 and p referencing b; when p is the only
\* reference to b and b's `next` is null, p = p->next deletes b and leaves p
\* null.
C24_AssignAcquiresBeforeRelease ==
    [][\A v \in PtrIds, a \in Targets :
          /\ ptrs[v].cls = TRefCountedPointer
          /\ ptrs[v].m_ref_with_target_obj_ptr = a
          /\ Refs(a) = {Var(v)}
          /\ pointer_assign(Var(v), NextOf(a))
          => /\ destructions[a] = 0 /\ destructions'[a] = 1
             /\ ptrs'[v].m_ref_with_target_obj_ptr = next[a]
             /\ \A b \in Targets :
                   next[a] = b /\ Refs(b) = {NextOf(a)} =>
                       /\ destructions'[b] = 0
                       /\ m_counter'[b] = 1
                       /\ Refs(b)' = {Var(v)}]_vars

\* the parent has been deleted and the child is alive with counter 1, held
\* only by the pointer variable that held the parent
C24_Witness ==
    \E v \in LivePtrs, a, b \in Targets :
        /\ a # b
        /\ destructions[a] = 1
        /\ b \in LiveTargets
        /\ ptrs[v].cls = TRefCountedPointer
        /\ Refs(b) = {Var(v)}
        /\ m_counter[b] = 1
        /\ LivePtrs = {v}


\* C25: every TRefCountedFixedPointer references a live target, the one it was
\* constructed with.
C25_FixedPointerKeepsTarget ==
    \A v \in LivePtrs :
        ptrs[v].cls = TRefCountedFixedPointer =>
            /\ ptrs[v].m_ref_with_target_obj_ptr \in LiveTargets
            /\ ptrs[v].m_ref_with_target_obj_ptr = ptrs[v].made


\* C30: the counter of every live target is the number of pointer objects
\* that reference it and is at least 1; no counter is ever negative, so the
\* assertion in CRefCounter::decrement holds whenever it is evaluated.
C30_CounterCountsPointers ==
    /\ \A x \in LiveTargets :
          /\ m_counter[x] = Cardinality(Refs(x))
          /\ m_counter[x] >= 1
    /\ \A x \in Targets : 0 <= m_counter[x]

\* a target referenced by two pointer variables and by its own `next` member,
\* counter 3, next to a second live target
C30_Witness ==
    \E x, y \in LiveTargets :
        /\ x # y
        /\ m_counter[x] = 3
        /\ NextOf(x) \in Refs(x)
        /\ Cardinality(Refs(x)) = 3


\* C26: operator bool of a proxy object is true exactly when its m_shptr
\* references the cell, so false for a moved-from proxy and true where
\* operator* returns; the step in which a thread tests one of its proxies
\* changes nothing but the thread's local, which gets 1 only if a proxy of
\* the thread holds a reference and 2 only if one does not.
C26_BoolIsValidity ==
    /\ [](\A p \in ProxyIds :
             proxy[p].st = "live" =>
                 /\ operator_bool(p) \in BOOLEAN
                 /\ operator_bool(p) <=> p \in Referencing
                 /\ operator_bool(p) <=> deref(p) # out_of_range)
    /\ [][\A t \in Threads :
             local'[t] # local[t] =>
                 /\ UNCHANGED <<cell, step>>
                 /\ local'[t] = 1 => \E p \in Mine(t) : p \in Referencing
                 /\ local'[t] = 2 => \E p \in Mine(t) : p \notin Referencing]_vars

\* a thread has tested its moved-from proxy (false) while the proxy
\* move-constructed from it is valid
C26_Witness ==
    \E t \in Threads : \E p, q \in Mine(t) :
        /\ local[t] = 2
        /\ ~operator_bool(p)
        /\ operator_bool(q)


\* C27: when every thread has at most one proxy and mints only while it has
\* none, then whenever a mint waits, some thread's proxy owns the lock and
\* that thread can destroy it, or the lock is free and a waiting mint can
\* return; so the threads are never all blocked.
C27_NoDeadlock ==
    /\ (\E t \in Threads : Waiting(t, LockBearing)) =>
          \/ \E u \in Threads : \E p \in Mine(u) :
                proxy[p].owns /\ ENABLED destroy_proxy(u, p)
          \/ /\ m_mutex1 = [writer |-> FALSE, readers |-> 0]
             /\ \E u \in Threads : Waiting(u, LockBearing) /\ CanReturn(u)
    /\ ~ \A t \in Threads : Waiting(t, LockBearing) /\ ~CanReturn(t)

\* all threads but one wait in a mint and cannot return; the remaining
\* thread's proxy owns the lock
C27_Witness ==
    \E u \in Threads : \E p \in Mine(u) :
        /\ proxy[p].owns
        /\ \A t \in Threads \ {u} : Waiting(t, LockBearing) /\ ~CanReturn(t)


\* thread t waits in a mint for a lock-bearing proxy while a valid
\* exclusive-locking proxy of its own owns the lock
MintsWhileHolding(t) ==
    /\ Waiting(t, LockBearing)
    /\ \E p \in Alive(ExclusiveLocking) : proxy[p].owner = t /\ proxy[p].owns

LockReleased ==
    \/ m_mutex1.writer /\ ~m_mutex1'.writer
    \/ m_mutex1'.readers < m_mutex1.readers

\* C29: destroying an invalid (moved-from) proxy, in both steps of its
\* destructor, leaves the lock, the proxies that own it, the owner count and
\* the cell as they were; a step that releases the lock is the destruction of
\* a valid proxy that owns it.
C29_InvalidProxyDestructionIsInert ==
    /\ [][\A t \in Threads, p \in ProxyIds :
             destroy_proxy(t, p) /\ ~is_valid(p) =>
                 /\ m_mutex1' = m_mutex1
                 /\ LockOwners' = LockOwners
                 /\ use_count' = use_count
                 /\ destroyed' = destroyed]_vars
    /\ [][\A t \in Threads :
             destroy_shptr(t) /\ ~proxy[cur[t]].m_shptr =>
                 /\ m_mutex1' = m_mutex1
                 /\ LockOwners' = LockOwners
                 /\ use_count' = use_count
                 /\ destroyed' = destroyed]_vars
    /\ [][LockReleased =>
             \E t \in Threads, p \in ProxyIds :
                 destroy_proxy(t, p) /\ is_valid(p) /\ proxy[p].owns]_vars

\* the destructor of a moved-from TAsyncSharedPointer has run its lock member
\* while the moved-to proxy is valid and the lock is still held exclusively
C29_Witness ==
    \E t \in Threads : \E q \in Mine(t) :
        /\ pc[t] = "dtor"
        /\ proxy[cur[t]].typ = TAsyncSharedPointer
        /\ ~proxy[cur[t]].m_shptr
        /\ proxy[q].typ = TAsyncSharedPointer
        /\ is_valid(q) /\ proxy[q].owns
        /\ m_mutex1.writer

====
